---- MODULE Spec2Model ----
(***************************************************************************)
(* The Org-mode parser of src/org.rs: an arena of span nodes grown by a    *)
(* pre-order driver (Org::parse) that hands each container to the walker   *)
(* of its grammar layer.  A text buffer is a sequence of one-byte strings; *)
(* offsets are 0-based byte offsets, as in the source.                     *)
(***************************************************************************)
EXTENDS Integers, Sequences, FiniteSets, TLC

\* ------------------------------------------------------------ byte slices

\* &t[b..e]
Slice(t, b, e) == SubSeq(t, b + 1, e)

\* t.as_bytes()[i]
At(t, i) == t[i + 1]

\* u8::is_ascii_whitespace
Whitespace == {" ", "\t", "\n", "\f", "\r"}

\* t[b..e].iter().all(u8::is_ascii_whitespace)
AllWhitespace(t, b, e) == \A k \in b..(e - 1) : At(t, k) \in Whitespace

\* t[from..].starts_with(p)
StartsWithAt(t, from, p) ==
    /\ from + Len(p) <= Len(t)
    /\ \A k \in 1..Len(p) : t[from + k] = p[k]

StartsWith(t, p) == StartsWithAt(t, 0, p)

\* the least element of a non-empty set of offsets
Least(S) == CHOOSE x \in S : \A y \in S : x <= y

\* the greatest element of a non-empty set of offsets
Greatest(S) == CHOOSE x \in S : \A y \in S : y <= x

\* memchr_iter(b'\n', t): the offsets of the newlines of t that are >= from
NewlinesFrom(t, from) == {p \in from..(Len(t) - 1) : At(t, p) = "\n"}

\* memchr(c, &t[from..]) as an absolute offset, or -1
FindByte(t, from, c) ==
    LET hits == {p \in from..(Len(t) - 1) : At(t, p) = c}
    IN IF hits = {} THEN -1 ELSE Least(hits)

\* ------------------------------------------------------- skip_empty_lines

\* the forward loop: i moves past each whitespace-only leading line
RECURSIVE SkipForward(_, _)
SkipForward(t, i) ==
    LET nls == NewlinesFrom(t, i)
    IN IF nls = {} THEN i
       ELSE LET pos == Least(nls)
            IN IF AllWhitespace(t, i, pos) THEN SkipForward(t, pos + 1) ELSE i

\* the backward loop: j moves back to each newline that starts a
\* whitespace-only tail
RECURSIVE SkipBackward(_, _)
SkipBackward(t, j) ==
    LET nls == {p \in 0..(j - 1) : At(t, p) = "\n"}
    IN IF nls = {} THEN j
       ELSE LET pos == Greatest(nls)
            IN IF AllWhitespace(t, pos, j) THEN SkipBackward(t, pos) ELSE j

skip_empty_lines(t) == <<SkipForward(t, 0), SkipBackward(t, Len(t))>>

\* ------------------------------------------------- the headline recognizers

\* the number of consecutive stars of t from offset p
RECURSIVE Stars(_, _)
Stars(t, p) == IF p < Len(t) /\ At(t, p) = "*" THEN 1 + Stars(t, p + 1) ELSE 0

\* a headline line of at most `level` stars starts at offset p: one or more
\* stars followed by a space
HeadlineAt(t, p, level) ==
    LET stars == Stars(t, p)
    IN /\ stars >= 1
       /\ stars <= level
       /\ p + stars < Len(t)
       /\ At(t, p + stars) = " "

\* Headline::find_level(t, level): the offset of the first line of t that is a
\* headline of at most `level` stars; Len(t) when t has none
find_level(t, level) ==
    LET starts == {p \in 0..(Len(t) - 1) :
                      /\ p = 0 \/ At(t, p - 1) = "\n"
                      /\ HeadlineAt(t, p, level)}
    IN IF starts = {} THEN Len(t) ELSE Least(starts)

\* Headline::parse(t): <<level, off, end>>, off past the headline's own line
\* and end before the next headline of the same or a higher level
HeadlineParse(t) ==
    LET level == Stars(t, 0)
        nl    == FindByte(t, 0, "\n")
    IN IF nl = -1 THEN <<level, Len(t), Len(t)>>
       ELSE IF nl + 1 = Len(t) THEN <<level, nl + 1, nl + 1>>
       ELSE <<level, nl + 1,
              nl + 1 + find_level(Slice(t, nl + 1, Len(t)), level)>>

\* std::usize::MAX, the level bound of the driver's search: any headline. No
\* line of a buffer has that many stars, so the largest 32-bit integer stands
\* for it
usize_MAX == 2147483647

\* ------------------------------------------------------------- the arena

\* Option<NodeId>::None; node ids are the 1-based indices of the arena
None == 0

\* an Element with its spans; a kind without a field carries 0 or <<>> in it
Elem(kind, b, e, cb, ce) ==
    [kind |-> kind, begin |-> b, end |-> e,
     contents_begin |-> cb, contents_end |-> ce,
     value |-> <<>>, name |-> <<>>, indent |-> 0]

\* an Element with the two outer offsets only
Leaf(kind, b, e) == Elem(kind, b, e, 0, 0)

\* Element::Text { value, begin, end }
TextElem(value, b, e) == [Leaf("Text", b, e) EXCEPT !.value = value]

\* the kinds whose variant has contents_begin and contents_end
InnerKinds == {"Section", "Headline", "Paragraph", "List", "ListItem", "Block",
               "DynBlock", "Drawer", "FnDef", "Bold", "Italic", "Underline",
               "Strike"}

\* Arena::new_node: the node is appended with no link
new_node(ar, data) ==
    Append(ar, [data |-> data, parent |-> None, previous_sibling |-> None,
                next_sibling |-> None, first_child |-> None,
                last_child |-> None])

\* ar with the next_sibling of n set to v, when there is an n
SetNext(ar, n, v) ==
    IF n = None THEN ar ELSE [ar EXCEPT ![n].next_sibling = v]

\* ar with the previous_sibling of n set to v, when there is an n
SetPrevious(ar, n, v) ==
    IF n = None THEN ar ELSE [ar EXCEPT ![n].previous_sibling = v]

\* ar with the first_child of p set to v when p exists and n was its first
SetFirst(ar, p, prev, v) ==
    IF p # None /\ prev = None THEN [ar EXCEPT ![p].first_child = v] ELSE ar

\* ar with the last_child of p set to v when p exists and n was its last
SetLast(ar, p, next, v) ==
    IF p # None /\ next = None THEN [ar EXCEPT ![p].last_child = v] ELSE ar

\* n, whose links were p, prev and next, unlinked from them
Unlink(ar, n, p, prev, next) ==
    SetLast(SetFirst(SetPrevious(SetNext(
        [ar EXCEPT ![n].parent = None, ![n].previous_sibling = None,
                   ![n].next_sibling = None],
        prev, next), next, prev), p, prev, next), p, next, prev)

\* NodeId::detach: the node leaves its parent and its siblings
detach(ar, n) ==
    Unlink(ar, n, ar[n].parent, ar[n].previous_sibling, ar[n].next_sibling)

\* new_child, detached, linked as the child of p after p's last child
Link(ar, p, new_child, last) ==
    SetNext([ar EXCEPT ![new_child].parent = p,
                       ![new_child].previous_sibling = last,
                       ![p].last_child = new_child,
                       ![p].first_child = IF last = None THEN new_child
                                          ELSE @],
            last, new_child)

\* the last child of p after new_child has left it
LastAfterDetach(ar, p, new_child) ==
    IF ar[p].last_child = new_child THEN ar[new_child].previous_sibling
    ELSE ar[p].last_child

\* NodeId::append: new_child is detached, then becomes the last child of p
append(ar, p, new_child) ==
    Link(detach(ar, new_child), p, new_child,
         LastAfterDetach(ar, p, new_child))

\* arena.new_node(data) followed by p.append(new_node, arena)
AddChild(ar, p, data) == append(new_node(ar, data), p, Len(ar) + 1)

\* the children of n in sibling order
RECURSIVE SiblingsFrom(_, _)
SiblingsFrom(ar, c) ==
    IF c = None THEN <<>> ELSE <<c>> \o SiblingsFrom(ar, ar[c].next_sibling)

Children(ar, n) == SiblingsFrom(ar, ar[n].first_child)

\* ------------------------------------------------------ lines and case

\* the offset of the first newline of t at or after from, Len(t) without one
LineEnd(t, from) ==
    LET nl == FindByte(t, from, "\n") IN IF nl = -1 THEN Len(t) ELSE nl

\* the offset past the line that holds offset from
PastLine(t, from) ==
    LET nl == FindByte(t, from, "\n") IN IF nl = -1 THEN Len(t) ELSE nl + 1

\* str::trim of t[b..e]
Trim(t, b, e) ==
    LET solid == {k \in b..(e - 1) : At(t, k) \notin Whitespace}
    IN IF solid = {} THEN <<>> ELSE Slice(t, Least(solid), Greatest(solid) + 1)

LowerCase ==
    <<"a", "b", "c", "d", "e", "f", "g", "h", "i", "j", "k", "l", "m", "n", "o", "p", "q", "r", "s", "t", "u", "v", "w", "x", "y", "z">>

UpperCase ==
    <<"A", "B", "C", "D", "E", "F", "G", "H", "I", "J", "K", "L", "M", "N", "O", "P", "Q", "R", "S", "T", "U", "V", "W", "X", "Y", "Z">>

Digits == {"0", "1", "2", "3", "4", "5", "6", "7", "8", "9"}

Alphabetic == {LowerCase[k] : k \in 1..26} \cup {UpperCase[k] : k \in 1..26}

\* u8::to_ascii_uppercase
to_ascii_uppercase(c) ==
    IF \E k \in 1..26 : LowerCase[k] = c
    THEN UpperCase[CHOOSE k \in 1..26 : LowerCase[k] = c]
    ELSE c

\* str::eq_ignore_ascii_case
eq_ignore_ascii_case(a, b) ==
    /\ Len(a) = Len(b)
    /\ \A k \in 1..Len(a) : to_ascii_uppercase(a[k]) = to_ascii_uppercase(b[k])

\* ------------------------------------------------ the element recognizers
\* Each takes the slice that starts at the candidate position and answers
\* <<>> for no match, or a tuple of offsets relative to the slice.

\* FnDef::parse: "[fn:LABEL]" at the start of the slice; <<off, end>>
FnDefParse(t) ==
    LET close == FindByte(t, 0, "]")
    IN IF /\ StartsWith(t, <<"[", "f", "n", ":">>)
          /\ close > 4
          /\ \A k \in 4..(close - 1) :
                At(t, k) \in Alphabetic \cup Digits \cup {"-", "_"}
       THEN <<close + 1, PastLine(t, 0)>>
       ELSE <<>>

\* the number of spaces at the start of t
RECURSIVE LeadingSpaces(_, _)
LeadingSpaces(t, p) ==
    IF p < Len(t) /\ At(t, p) = " " THEN 1 + LeadingSpaces(t, p + 1) ELSE 0

\* the slice from p starts with a bullet: "-", "+", "*" or a digit and ".",
\* followed by a space
IsItem(t, p) ==
    \/ /\ p + 1 < Len(t)
       /\ At(t, p) \in {"-", "+", "*"}
       /\ At(t, p + 1) = " "
    \/ /\ p + 2 < Len(t)
       /\ At(t, p) \in Digits
       /\ At(t, p + 1) \in {".", ")"}
       /\ At(t, p + 2) = " "

\* the indent of the line t[start..i], -1 for a whitespace-only line
LineIndent(t, start, i) ==
    LET solid == {k \in start..(i - 1) : At(t, k) \notin Whitespace}
    IN IF solid = {} THEN -1 ELSE Least(solid) - start

\* the lines of a list from offset start: <<limit, end>>
RECURSIVE ListScan(_, _, _, _)
ListScan(t, indent, start, last_end) ==
    IF start > Len(t)
    THEN IF last_end # 0 THEN <<last_end, Len(t)>> ELSE <<Len(t), Len(t)>>
    ELSE LET i  == LineEnd(t, start)
             li == LineIndent(t, start, i)
         IN IF li = -1
            THEN IF last_end # 0
                 THEN <<last_end, IF i < Len(t) THEN i + 1 ELSE i>>
                 ELSE ListScan(t, indent, i + 1, start)
            ELSE IF li < indent \/ (li = indent /\ ~IsItem(t, start + li))
            THEN <<start, start>>
            ELSE ListScan(t, indent, i + 1, 0)

\* List::parse: a run of bullet lines of one indent; <<indent, limit, end>>
ListParse(t) ==
    LET indent == LeadingSpaces(t, 0)
    IN IF IsItem(t, indent)
       THEN <<indent>> \o ListScan(t, indent, 0, 0)
       ELSE <<>>

\* the end of a list item: the start of the next line of the same indent
RECURSIVE ItemScan(_, _, _)
ItemScan(t, indent, pos) ==
    IF pos >= Len(t) THEN Len(t)
    ELSE LET i == PastLine(t, pos)
         IN IF LineIndent(t, pos, i) = indent THEN pos
            ELSE ItemScan(t, indent, i)

\* ListItem::parse: <<off, end>>, off past the bullet and its space
ListItemParse(t, indent) ==
    <<FindByte(t, indent, " ") + 1, ItemScan(t, indent, PastLine(t, 0))>>

\* Clock::parse: a line that starts with CLOCK: ; <<end>>
ClockParse(t) ==
    IF StartsWith(t, <<"C", "L", "O", "C", "K", ":">>)
    THEN <<PastLine(t, 0)>> ELSE <<>>

\* Rule::parse: a line of five or more dashes; <<end>>
RuleParse(t) ==
    LET line == Trim(t, 0, LineEnd(t, 0))
    IN IF Len(line) >= 5 /\ \A k \in 1..Len(line) : line[k] = "-"
       THEN <<PastLine(t, 0)>> ELSE <<>>

\* the first line from pos on that is `marker` once trimmed: <<limit, end>>
RECURSIVE FindEndLine(_, _, _)
FindEndLine(t, pos, marker) ==
    IF pos >= Len(t) THEN <<>>
    ELSE IF eq_ignore_ascii_case(Trim(t, pos, LineEnd(t, pos)), marker)
    THEN <<pos, PastLine(t, pos)>>
    ELSE FindEndLine(t, PastLine(t, pos), marker)

\* Drawer::parse: ":NAME:" line to ":END:" line; <<off, limit, end>>
DrawerParse(t) ==
    LET nl   == FindByte(t, 0, "\n")
        name == Trim(t, 1, nl)
        rest == FindEndLine(t, nl + 1, <<":", "E", "N", "D", ":">>)
    IN IF /\ nl # -1
          /\ Len(name) >= 1
          /\ name[Len(name)] = ":"
          /\ \A k \in 1..(Len(name) - 1) :
                name[k] \in Alphabetic \cup {"-", "_"}
          /\ rest # <<>>
       THEN <<nl + 1>> \o rest
       ELSE <<>>

\* Block::parse: "#+BEGIN_NAME" line to "#+END_NAME" line;
\* <<name, off, limit, end>>
BlockParse(t) ==
    LET nl   == FindByte(t, 0, "\n")
        sp   == FindByte(t, 8, " ")
        name == IF sp # -1 /\ sp < nl THEN Slice(t, 8, sp) ELSE Slice(t, 8, nl)
        rest == FindEndLine(t, nl + 1,
                            <<"#", "+", "E", "N", "D", "_">> \o name)
    IN IF /\ Len(t) > 8
          /\ eq_ignore_ascii_case(Slice(t, 2, 8),
                                  <<"B", "E", "G", "I", "N", "_">>)
          /\ nl # -1
          /\ rest # <<>>
       THEN <<name, nl + 1>> \o rest
       ELSE <<>>

\* DynBlock::parse: "#+BEGIN:" line to "#+END:" line; <<off, limit, end>>
DynBlockParse(t) ==
    LET nl   == FindByte(t, 0, "\n")
        rest == FindEndLine(t, nl + 1, <<"#", "+", "E", "N", "D", ":">>)
    IN IF /\ Len(t) > 8
          /\ eq_ignore_ascii_case(Slice(t, 2, 8),
                                  <<"B", "E", "G", "I", "N", ":">>)
          /\ nl # -1
          /\ rest # <<>>
       THEN <<nl + 1>> \o rest
       ELSE <<>>

\* Keyword::parse: "#+KEY: VALUE" line; <<key, end>>
KeywordParse(t) ==
    LET colon == FindByte(t, 0, ":")
    IN IF /\ colon > 2
          /\ \A k \in 2..(colon - 1) : At(t, k) \in Alphabetic \cup {"_"}
       THEN <<Slice(t, 2, colon), PastLine(t, 0)>>
       ELSE <<>>

\* --------------------------------------------------- the element dispatcher

\* text.find(|c| !c.is_ascii_whitespace()).unwrap_or(0)
LineBegin(t) ==
    LET solid == {k \in 0..(Len(t) - 1) : At(t, k) \notin Whitespace}
    IN IF solid = {} THEN 0 ELSE Least(solid)

\* `if let Some(..) = first { .. } else ..`: the first match wins
OrElse(first, otherwise) == IF first # <<>> THEN first ELSE otherwise

\* the arm of parse_element for a footnote definition <<off, end>>
FnDefArm(begin, fn_def) ==
    IF fn_def = <<>> THEN <<>>
    ELSE <<Elem("FnDef", begin, begin + fn_def[2],
                begin + fn_def[1], begin + fn_def[2]), fn_def[2]>>

\* the arm of parse_element for a list <<indent, limit, end>>
ListArm(begin, list) ==
    IF list = <<>> THEN <<>>
    ELSE <<[Elem("List", begin, begin + list[3], begin, begin + list[2])
              EXCEPT !.indent = list[1]], list[3]>>

\* the arms of parse_element for a clock or a rule <<end>>
LineArm(kind, begin, line_begin, parsed) ==
    IF parsed = <<>> THEN <<>>
    ELSE <<Leaf(kind, begin, begin + line_begin + parsed[1]),
           line_begin + parsed[1]>>

\* the arms of parse_element for a drawer or a dynamic block
\* <<off, limit, end>>
SpanArm(kind, begin, line_begin, parsed) ==
    IF parsed = <<>> THEN <<>>
    ELSE <<Elem(kind, begin, begin + line_begin + parsed[3],
                begin + line_begin + parsed[1],
                begin + line_begin + parsed[2]),
           line_begin + parsed[3]>>

\* the arm of parse_element for a block <<name, off, limit, end>>
BlockArm(begin, line_begin, block) ==
    IF block = <<>> THEN <<>>
    ELSE <<[Elem("Block", begin, begin + line_begin + block[4],
                 begin + line_begin + block[2],
                 begin + line_begin + block[3])
              EXCEPT !.name = block[1]],
           line_begin + block[4]>>

\* the arm of parse_element for a keyword <<key, end>>: a babel call when
\* the key is CALL
KeywordArm(begin, line_begin, keyword) ==
    IF keyword = <<>> THEN <<>>
    ELSE IF eq_ignore_ascii_case(keyword[1], <<"C", "A", "L", "L">>)
    THEN <<Leaf("BabelCall", begin, begin + line_begin + keyword[2]),
           line_begin + keyword[2]>>
    ELSE <<[Leaf("Keyword", begin, begin + line_begin + keyword[2])
              EXCEPT !.name = keyword[1]],
           line_begin + keyword[2]>>

\* the tail of parse_element with the keyword tried before the blocks
TailElementKeywordFirst(begin, line_begin, tail) ==
    OrElse(LineArm("Clock", begin, line_begin, ClockParse(tail)),
    OrElse(IF StartsWith(tail, <<"-", "-", "-", "-", "-">>)
           THEN LineArm("Rule", begin, line_begin, RuleParse(tail))
           ELSE <<>>,
    OrElse(IF StartsWith(tail, <<":">>)
           THEN SpanArm("Drawer", begin, line_begin, DrawerParse(tail))
           ELSE <<>>,
           IF StartsWith(tail, <<"#", "+">>)
           THEN OrElse(KeywordArm(begin, line_begin, KeywordParse(tail)),
                OrElse(BlockArm(begin, line_begin, BlockParse(tail)),
                       SpanArm("DynBlock", begin, line_begin,
                               DynBlockParse(tail))))
           ELSE <<>>)))

\* parse_element from the clock on, over tail = t[line_begin..]
TailElement(begin, line_begin, tail) ==
    OrElse(LineArm("Clock", begin, line_begin, ClockParse(tail)),
    OrElse(IF StartsWith(tail, <<"-", "-", "-", "-", "-">>)
           THEN LineArm("Rule", begin, line_begin, RuleParse(tail))
           ELSE <<>>,
    OrElse(IF StartsWith(tail, <<":">>)
           THEN SpanArm("Drawer", begin, line_begin, DrawerParse(tail))
           ELSE <<>>,
           IF StartsWith(tail, <<"#", "+">>)
           THEN OrElse(BlockArm(begin, line_begin, BlockParse(tail)),
                OrElse(SpanArm("DynBlock", begin, line_begin,
                               DynBlockParse(tail)),
                       KeywordArm(begin, line_begin, KeywordParse(tail))))
           ELSE <<>>)))

\* parse_element over t = text[begin..end]
ElementOf(begin, t) ==
    OrElse(FnDefArm(begin, FnDefParse(t)),
    OrElse(ListArm(begin, ListParse(t)),
           TailElement(begin, LineBegin(t),
                       Slice(t, LineBegin(t), Len(t)))))

\* Org::parse_element: <<>> or <<element, length>>
parse_element(buf, begin, end) == ElementOf(begin, Slice(buf, begin, end))

\* ---------------------------------------------------------- the block walker

\* what the line loop of parse_elements_children found at line start pos,
\* the line ending at newline i: a whitespace-only line, an element, or
\* (<<>>) neither
LineFound(t, pos, i, el) ==
    IF AllWhitespace(t, pos, i)
    THEN [found |-> "empty_line", pos |-> pos, i |-> i]
    ELSE IF el # <<>>
    THEN [found |-> "element", pos |-> pos, ty |-> el[1], off |-> el[2]]
    ELSE <<>>

\* the line loop of parse_elements_children over t = buf[begin..end], from
\* line start pos: the first whitespace-only line, or the first line at
\* which parse_element matches, or neither
RECURSIVE ScanLines(_, _, _, _, _)
ScanLines(buf, t, begin, end, pos) ==
    IF NewlinesFrom(t, pos) = {} THEN [found |-> "none"]
    ELSE OrElse(LineFound(t, pos, Least(NewlinesFrom(t, pos)),
                          parse_element(buf, begin + pos, end)),
                ScanLines(buf, t, begin, end,
                          Least(NewlinesFrom(t, pos)) + 1))

\* Element::Paragraph { begin, end, contents_begin, contents_end }
Paragraph(b, e, cb, ce) == Elem("Paragraph", b, e, cb, ce)

\* what parse_elements_children appends and where it goes on, after no
\* element parsed at begin and the line loop found `scan`
ParagraphOf(ar, t, begin, end, node, scan) ==
    IF scan.found = "empty_line"
    THEN <<AddChild(ar, node,
                    Paragraph(begin,
                              begin + scan.i
                              + skip_empty_lines(Slice(t, scan.i, Len(t)))[1],
                              begin, begin + scan.pos)),
           begin + scan.i + skip_empty_lines(Slice(t, scan.i, Len(t)))[1]>>
    ELSE IF scan.found = "element"
    THEN <<AddChild(AddChild(ar, node,
                             Paragraph(begin, begin + scan.pos,
                                       begin, begin + scan.pos)),
                    node, scan.ty),
           begin + scan.pos + scan.off>>
    ELSE <<AddChild(ar, node,
                    Paragraph(begin, end, begin,
                              IF At(t, Len(t) - 1) = "\n"
                              THEN end - 1 ELSE end)),
           end>>

\* the element parsed at begin appended without `begin += off`
DirectElementStays(ar, begin, node, direct) ==
    IF direct = <<>> THEN <<>>
    ELSE <<AddChild(ar, node, direct[1]), begin>>

\* the element parsed at begin appended, or <<>>
DirectElement(ar, begin, node, direct) ==
    IF direct = <<>> THEN <<>>
    ELSE <<AddChild(ar, node, direct[1]), begin + direct[2]>>

\* one iteration of the loop of parse_elements_children with begin < end:
\* <<arena, begin>> after it
ElementsIteration(ar, buf, begin, end, node) ==
    OrElse(DirectElement(ar, begin, node, parse_element(buf, begin, end)),
           ParagraphOf(ar, Slice(buf, begin, end), begin, end, node,
                       ScanLines(buf, Slice(buf, begin, end), begin, end, 0)))

\* ------------------------------------------------- the object recognizers
\* Each takes the slice that starts at the candidate position and answers
\* <<>> for no match, or <<off>>, the length of the object.

\* the least offset >= from at which p occurs in t, or -1
FindSeq(t, from, p) ==
    LET hits == {k \in from..(Len(t) - Len(p)) : StartsWithAt(t, k, p)}
    IN IF hits = {} THEN -1 ELSE Least(hits)

\* no newline in t[b..e]
OneLine(t, b, e) == \A k \in b..(e - 1) : At(t, k) # "\n"

\* Snippet::parse: @@name:value@@
SnippetParse(t) ==
    LET colon == FindByte(t, 2, ":")
        close == FindSeq(t, colon + 1, <<"@", "@">>)
    IN IF /\ colon > 2
          /\ \A k \in 2..(colon - 1) :
                At(t, k) \in Alphabetic \cup Digits \cup {"-"}
          /\ close # -1
          /\ OneLine(t, 0, close)
       THEN <<close + 2>> ELSE <<>>

\* Macros::parse: {{{name}}} or {{{name(arguments)}}}
MacrosParse(t) ==
    LET close == FindSeq(t, 3, <<"}", "}", "}">>)
    IN IF /\ Len(t) > 3
          /\ At(t, 3) \in Alphabetic
          /\ close # -1
          /\ OneLine(t, 0, close)
       THEN <<close + 3>> ELSE <<>>

\* RadioTarget::parse: <<<target>>>
RadioTargetParse(t) ==
    LET close == FindSeq(t, 3, <<">", ">", ">">>)
    IN IF /\ close > 3
          /\ \A k \in 3..(close - 1) : At(t, k) \notin {"<", ">", "\n"}
       THEN <<close + 3>> ELSE <<>>

\* Target::parse: <<target>>
TargetParse(t) ==
    LET close == FindSeq(t, 2, <<">", ">">>)
    IN IF /\ close > 2
          /\ \A k \in 2..(close - 1) : At(t, k) \notin {"<", ">", "\n"}
       THEN <<close + 2>> ELSE <<>>

\* Timestamp::parse_active: <DATE ...>
TimestampParseActive(t) ==
    LET close == FindByte(t, 1, ">")
    IN IF At(t, 1) \in Digits /\ close # -1 /\ OneLine(t, 0, close)
       THEN <<close + 1>> ELSE <<>>

\* Timestamp::parse_diary: <%%(...)>
TimestampParseDiary(t) ==
    LET close == FindSeq(t, 4, <<")", ">">>)
    IN IF /\ StartsWith(t, <<"<", "%", "%", "(">>)
          /\ close # -1
          /\ OneLine(t, 0, close)
       THEN <<close + 2>> ELSE <<>>

\* Timestamp::parse_inactive: [DATE ...]
TimestampParseInactive(t) ==
    LET close == FindByte(t, 1, "]")
    IN IF At(t, 1) \in Digits /\ close # -1 /\ OneLine(t, 0, close)
       THEN <<close + 1>> ELSE <<>>

\* FnRef::parse: [fn:label] or [fn:label:definition]
FnRefParse(t) ==
    LET close == FindByte(t, 4, "]")
    IN IF close # -1 /\ OneLine(t, 0, close)
       THEN <<close + 1>> ELSE <<>>

\* Link::parse: [[path]] or [[path][description]]
LinkParse(t) ==
    LET mid   == FindByte(t, 2, "]")
        close == FindSeq(t, mid + 2, <<"]", "]">>)
    IN IF mid = -1 \/ mid + 1 >= Len(t) \/ ~OneLine(t, 0, mid) THEN <<>>
       ELSE IF At(t, mid + 1) = "]" THEN <<mid + 2>>
       ELSE IF At(t, mid + 1) = "[" /\ close # -1 /\ OneLine(t, mid, close)
       THEN <<close + 2>>
       ELSE <<>>

\* Cookie::parse: [N%] or [N/M]
CookieParse(t) ==
    LET close == FindByte(t, 1, "]")
        slash == FindByte(t, 1, "/")
    IN IF close = -1 THEN <<>>
       ELSE IF /\ At(t, close - 1) = "%"
               /\ \A k \in 1..(close - 2) : At(t, k) \in Digits
       THEN <<close + 1>>
       ELSE IF /\ slash # -1
               /\ slash < close
               /\ \A k \in 1..(close - 1) : k # slash => At(t, k) \in Digits
       THEN <<close + 1>>
       ELSE <<>>

\* the bytes that may follow the closing marker of an emphasis
PostBytes == {" ", "-", ".", ",", ":", "!", "?", "'", "\n", ")", "}"}

\* emphasis::parse: marker, text that neither starts nor ends with
\* whitespace and spans at most two lines, marker, then the end or a
\* post byte
EmphasisParse(t, marker) ==
    LET close == FindByte(t, 1, marker)
    IN IF /\ At(t, 1) \notin Whitespace
          /\ close # -1
          /\ Cardinality({k \in 1..(close - 1) : At(t, k) = "\n"}) < 2
          /\ At(t, close - 1) \notin Whitespace
          /\ close + 1 < Len(t) => At(t, close + 1) \in PostBytes
       THEN <<close + 1>> ELSE <<>>

\* InlineSrc::parse: src_lang{body} or src_lang[options]{body}
InlineSrcParse(t) ==
    LET open  == FindByte(t, 4, "{")
        close == FindByte(t, open, "}")
    IN IF /\ open > 4
          /\ At(t, 4) \in Alphabetic
          /\ close # -1
          /\ OneLine(t, 0, close)
       THEN <<close + 1>> ELSE <<>>

\* InlineCall::parse: call_name(arguments)
InlineCallParse(t) ==
    LET open  == FindByte(t, 5, "(")
        close == FindByte(t, open, ")")
    IN IF /\ open > 5
          /\ At(t, 5) \in Alphabetic
          /\ close # -1
          /\ OneLine(t, 0, close)
       THEN <<close + 1>> ELSE <<>>

\* ---------------------------------------------------- the object dispatcher

\* recognizer(text).map(|(_, off)| (Element { begin, end: begin + off }, off))
Object(kind, parsed, begin) ==
    IF parsed = <<>> THEN <<>>
    ELSE <<Leaf(kind, begin, begin + parsed[1]), parsed[1]>>

\* emphasis::parse(text, marker).map(..) for Bold, Strike, Italic, Underline
Emphasis(kind, parsed, begin) ==
    IF parsed = <<>> THEN <<>>
    ELSE <<Elem(kind, begin, begin + parsed[1],
                begin + 1, begin + parsed[1] - 1), parsed[1]>>

\* emphasis::parse(text, marker).map(..) for Verbatim and Code
Raw(kind, parsed, t, begin) ==
    IF parsed = <<>> THEN <<>>
    ELSE <<[Leaf(kind, begin, begin + parsed[1])
              EXCEPT !.value = Slice(t, 1, parsed[1] - 1)], parsed[1]>>

\* parse_object over t = text[begin..end], whose first bytes are b0 b1 b2
ObjectOf(begin, t, b0, b1, b2) ==
    IF b0 = "@" /\ b1 = "@"
    THEN Object("Snippet", SnippetParse(t), begin)
    ELSE IF b0 = "{" /\ b1 = "{" /\ b2 = "{"
    THEN Object("Macros", MacrosParse(t), begin)
    ELSE IF b0 = "<" /\ b1 = "<"
    THEN IF b2 = "<"
         THEN Object("RadioTarget", RadioTargetParse(t), begin)
         ELSE Object("Target", TargetParse(t), begin)
    ELSE IF b0 = "<"
    THEN Object("Timestamp",
                OrElse(TimestampParseActive(t), TimestampParseDiary(t)),
                begin)
    ELSE IF b0 = "["
    THEN IF StartsWithAt(t, 1, <<"f", "n", ":">>)
         THEN Object("FnRef", FnRefParse(t), begin)
         ELSE IF b1 = "["
         THEN Object("Link", LinkParse(t), begin)
         ELSE OrElse(Object("Cookie", CookieParse(t), begin),
                     Object("Timestamp", TimestampParseInactive(t), begin))
    ELSE IF b0 = "*" THEN Emphasis("Bold", EmphasisParse(t, "*"), begin)
    ELSE IF b0 = "+" THEN Emphasis("Strike", EmphasisParse(t, "+"), begin)
    ELSE IF b0 = "/" THEN Emphasis("Italic", EmphasisParse(t, "/"), begin)
    ELSE IF b0 = "_" THEN Emphasis("Underline", EmphasisParse(t, "_"), begin)
    ELSE IF b0 = "=" THEN Raw("Verbatim", EmphasisParse(t, "="), t, begin)
    ELSE IF b0 = "~" THEN Raw("Code", EmphasisParse(t, "~"), t, begin)
    ELSE IF b0 = "s" /\ StartsWith(t, <<"s", "r", "c", "_">>)
    THEN Object("InlineSrc", InlineSrcParse(t), begin)
    ELSE IF b0 = "c" /\ StartsWith(t, <<"c", "a", "l", "l", "_">>)
    THEN Object("InlineCall", InlineCallParse(t), begin)
    ELSE <<>>

\* Org::parse_object: <<>> or <<element, length>>
parse_object(buf, begin, end) ==
    IF end - begin < 3 THEN <<>>
    ELSE ObjectOf(begin, Slice(buf, begin, end),
                  At(buf, begin), At(buf, begin + 1), At(buf, begin + 2))

\* --------------------------------------------------------- the inline walker

\* the bytes before which an object may start
PreDelimiters == {"{", " ", "\"", ",", "(", "\n"}

\* bytes!(b'@', b' ', b'"', b'(', b'\n', b'{', b'<', b'['): the bytes at
\* which the fallback scan stops
ScanBytes == {"@", " ", "\"", "(", "\n", "{", "<", "["}

\* an object parsed by the fallback scan: text_end is where the Text before
\* it ends, relative to begin, and next where the walker goes on
ScanHit(text_end, obj) ==
    IF obj = <<>> THEN <<>>
    ELSE [text_end |-> text_end, ty |-> obj[1],
          next |-> text_end + obj[2]]

\* the fallback scan of parse_objects_children over buf[begin..end] from
\* offset pos: the first stop byte at which, or one byte after which, an
\* object parses; <<>> without one
RECURSIVE ScanObjects(_, _, _, _)

\* the scan at its stop byte p
ScanAt(buf, begin, end, p) ==
    OrElse(IF At(buf, begin + p) \in PreDelimiters
           THEN ScanHit(p + 1, parse_object(buf, begin + p + 1, end))
           ELSE ScanHit(p, parse_object(buf, begin + p, end)),
           ScanObjects(buf, begin, end, p + 1))

ScanObjects(buf, begin, end, pos) ==
    LET hits == {k \in pos..(end - begin - 1) :
                    At(buf, begin + k) \in ScanBytes}
    IN IF hits = {} THEN <<>> ELSE ScanAt(buf, begin, end, Least(hits))

\* Element::Text { value: &text[b..e], begin, end }
Text(buf, b, e, begin, end) == TextElem(Slice(buf, b, e), begin, end)

\* a first match whose Text is `text[begin..begin]`, not `text[begin..=begin]`
FirstObjectExclusive(ar, buf, begin, end, node, pre, obj) ==
    IF obj = <<>> THEN <<>>
    ELSE IF pre
    THEN <<AddChild(AddChild(ar, node,
                             Text(buf, begin, begin, begin, end)),
                    node, obj[1]),
           begin + 1 + obj[2]>>
    ELSE <<AddChild(ar, node, obj[1]), begin + obj[2]>>

\* the first match of parse_objects_children: an object right at begin, or
\* one byte later when begin holds a pre-delimiter
FirstObject(ar, buf, begin, end, node, pre, obj) ==
    IF obj = <<>> THEN <<>>
    ELSE IF pre
    THEN <<AddChild(AddChild(ar, node,
                             Text(buf, begin, begin + 1, begin, end)),
                    node, obj[1]),
           begin + 1 + obj[2]>>
    ELSE <<AddChild(ar, node, obj[1]), begin + obj[2]>>

\* what parse_objects_children appends after its fallback scan: the Text
\* before the object and the object, or the rest as one Text
ScannedObject(ar, buf, begin, end, node, scan) ==
    IF scan = <<>>
    THEN <<AddChild(ar, node, Text(buf, begin, end, begin, end)), end>>
    ELSE <<AddChild(AddChild(ar, node,
                             Text(buf, begin, begin + scan.text_end,
                                  begin, end)),
                    node, scan.ty),
           begin + scan.next>>

\* one iteration of the loop of parse_objects_children with begin < end:
\* <<arena, begin>> after it
ObjectsIteration(ar, buf, begin, end, node) ==
    OrElse(FirstObject(ar, buf, begin, end, node,
                       At(buf, begin) \in PreDelimiters,
                       IF At(buf, begin) \in PreDelimiters
                       THEN parse_object(buf, begin + 1, end)
                       ELSE parse_object(buf, begin, end)),
           ScannedObject(ar, buf, begin, end, node,
                         ScanObjects(buf, begin, end, 0)))

\* the headline <<level, off, end>> appended
HeadlineOf(ar, begin, node, h) ==
    <<AddChild(ar, node,
               [Elem("Headline", begin, begin + h[3],
                     begin + h[2], begin + h[3]) EXCEPT !.indent = h[1]]),
      begin + h[3]>>

\* one iteration of the while loop of the Document and Headline arm with
\* begin < end: <<arena, begin>> after it
HeadlinesIteration(ar, buf, begin, end, node) ==
    HeadlineOf(ar, begin, node, HeadlineParse(Slice(buf, begin, end)))

\* the list item <<off, end>> appended
ItemOf(ar, begin, node, item) ==
    <<AddChild(ar, node,
               Elem("ListItem", begin, begin + item[2],
                    begin + item[1], begin + item[2])),
      begin + item[2]>>

\* one iteration of the loop of parse_list_items with begin < end
ItemsIteration(ar, buf, begin, end, indent, node) ==
    ItemOf(ar, begin, node, ListItemParse(Slice(buf, begin, end), indent))

\* ------------------------------------------------------------ the inputs

\* * Heading\nBody.\n
Heading ==
    <<"*", " ", "H", "e", "a", "d", "i", "n", "g", "\n", "B", "o", "d",
      "y", ".", "\n">>

\* Para one.\n\nPara two.\n
Paragraphs ==
    <<"P", "a", "r", "a", " ", "o", "n", "e", ".", "\n", "\n", "P", "a",
      "r", "a", " ", "t", "w", "o", ".", "\n">>

\* A *bold* end.
BoldText ==
    <<"A", " ", "*", "b", "o", "l", "d", "*", " ", "e", "n", "d", ".">>

\* - one\n- two\n
ItemList ==
    <<"-", " ", "o", "n", "e", "\n", "-", " ", "t", "w", "o", "\n">>

\* #+BEGIN_SRC rust\nfn main(){}\n#+END_SRC\n
SrcBlock ==
    <<"#", "+", "B", "E", "G", "I", "N", "_", "S", "R", "C", " ", "r",
      "u", "s", "t", "\n", "f", "n", " ", "m", "a", "i", "n", "(", ")", "{",
      "}", "\n", "#", "+", "E", "N", "D", "_", "S", "R", "C", "\n">>

\* *not bold
NotBold ==
    <<"*", "n", "o", "t", " ", "b", "o", "l", "d">>

\* * a\n** b\nc\n* d\n
Subtree ==
    <<"*", " ", "a", "\n", "*", "*", " ", "b", "\n", "c", "\n", "*", " ",
      "d", "\n">>

\* #+TITLE: t\n #+call: f()\n
Keywords ==
    <<"#", "+", "T", "I", "T", "L", "E", ":", " ", "t", "\n", " ", "#",
      "+", "c", "a", "l", "l", ":", " ", "f", "(", ")", "\n">>

\* :LOG:\nx\n:END:\ny
DrawerText ==
    <<":", "L", "O", "G", ":", "\n", "x", "\n", ":", "E", "N", "D", ":",
      "\n", "y">>

\* #+BEGIN: clock\nx\n#+END:\n
DynBlockText ==
    <<"#", "+", "B", "E", "G", "I", "N", ":", " ", "c", "l", "o", "c",
      "k", "\n", "x", "\n", "#", "+", "E", "N", "D", ":", "\n">>

\* [fn:1] note\nx\n
Footnote ==
    <<"[", "f", "n", ":", "1", "]", " ", "n", "o", "t", "e", "\n", "x",
      "\n">>

\* x\nCLOCK: [2019]\n-----\n
ClockRule ==
    <<"x", "\n", "C", "L", "O", "C", "K", ":", " ", "[", "2", "0", "1",
      "9", "]", "\n", "-", "-", "-", "-", "-", "\n">>

\* - a\n  - b\n- c\n\n\nd
NestedList ==
    <<"-", " ", "a", "\n", " ", " ", "-", " ", "b", "\n", "-", " ", "c",
      "\n", "\n", "\n", "d">>

\* #+BEGIN_QUOTE\n*b* c\n#+END_QUOTE\n
QuoteBlock ==
    <<"#", "+", "B", "E", "G", "I", "N", "_", "Q", "U", "O", "T", "E",
      "\n", "*", "b", "*", " ", "c", "\n", "#", "+", "E", "N", "D", "_",
      "Q", "U", "O", "T", "E", "\n">>

\* x [[l][d]] <<t>> <<<r>>> {{{{m}}} [fn:1] [1/2] <2019> [2019]
Objects ==
    <<"x", " ", "[", "[", "l", "]", "[", "d", "]", "]", " ", "<", "<",
      "t", ">", ">", " ", "<", "<", "<", "r", ">", ">", ">", " ", "{", "{",
      "{", "{", "m", "}", "}", "}", " ", "[", "f", "n", ":", "1", "]", " ",
      "[", "1", "/", "2", "]", " ", "<", "2", "0", "1", "9", ">", " ", "[",
      "2", "0", "1", "9", "]">>

\* @@h:b@@ src_c{x} call_f(1) =v= ~c~ /i _u +s+ u_ i/
Markup ==
    <<"@", "@", "h", ":", "b", "@", "@", " ", "s", "r", "c", "_", "c",
      "{", "x", "}", " ", "c", "a", "l", "l", "_", "f", "(", "1", ")", " ",
      "=", "v", "=", " ", "~", "c", "~", " ", "/", "i", " ", "_", "u", " ",
      "+", "s", "+", " ", "u", "_", " ", "i", "/">>

\* * a\nx\n** b\n- *c* d\n
Outline ==
    <<"*", " ", "a", "\n", "x", "\n", "*", "*", " ", "b", "\n", "-", " ",
      "*", "c", "*", " ", "d", "\n">>

\* [[a]]*b*
LinkBold == <<"[", "[", "a", "]", "]", "*", "b", "*">>

\* {{{m}}}
MacroOnly == <<"{", "{", "{", "m", "}", "}", "}">>

\* #+BEGIN: c\nx\n#+END:\n #+CaLl: f\n
Ladder ==
    <<"#", "+", "B", "E", "G", "I", "N", ":", " ", "c", "\n", "x", "\n",
      "#", "+", "E", "N", "D", ":", "\n", " ", "#", "+", "C", "a", "L",
      "l", ":", " ", "f", "\n">>

\* buffers that hold the other kinds of element and object
Samples == {Subtree, Keywords, DrawerText, DynBlockText, Footnote, ClockRule,
            NestedList, QuoteBlock, Objects, Markup, Outline, LinkBold,
            MacroOnly, Ladder}

\* the buffers of the scenarios
Examples == {Heading, Paragraphs, BoldText, ItemList, SrcBlock, NotBold}

\* the bytes of the enumerated buffers
Alphabet == {"*", " ", "\n", "a", "-"}

\* the longest enumerated buffer
MaxLen == 4

\* every buffer over Alphabet of at most MaxLen bytes, the scenarios and the
\* samples
Inputs ==
    (UNION {[1..k -> Alphabet] : k \in 0..MaxLen}) \cup Examples \cup Samples

\* the most calls of parse() on one parser
MaxParse == 2

\* ------------------------------------------------------------- the parser

VARIABLES
    text,      \* Org::text
    arena,     \* Org::arena
    root,      \* Org::root
    borrowed,  \* iter() took its &'a mut borrow of the Org<'a>
    pc,        \* where parse() stands: idle when no call is running
    node,      \* parse's local node
    begin,     \* the running walker's begin
    end,       \* the running walker's end
    parses     \* the calls of parse() that have returned

vars == <<text, arena, root, borrowed, pc, node, begin, end, parses>>

\* Org::document: the id new() gives the Document node
document == 1

\* Org::new
Init ==
    /\ text \in Inputs
    /\ arena = new_node(<<>>, Leaf("Document", 0, Len(text)))
    /\ root = None
    /\ borrowed = FALSE
    /\ pc = "idle"
    /\ node = document
    /\ begin = 0
    /\ end = 0
    /\ parses = 0

\* a finish that looks at the Document's parent, not at its first child
finishByParent == arena[document].parent # None

\* Org::finish
finish == arena[document].first_child # None

\* an iter whose append has its two nodes exchanged: the Root goes under the
\* Document
IterRootBelow ==
    /\ pc = "idle"
    /\ ~borrowed
    /\ arena' = IF root # None THEN arena
                ELSE append(new_node(arena, Leaf("Root", 0, 0)),
                            document, Len(arena) + 1)
    /\ borrowed' = TRUE
    /\ UNCHANGED <<text, root, pc, node, begin, end, parses>>

\* Org::iter: a Root is made and the Document appended to it unless the root
\* field holds one; the returned Iter<'a> keeps the &'a mut borrow of the
\* Org<'a>, which admits no later call on it
Iter ==
    /\ pc = "idle"
    /\ ~borrowed
    /\ arena' = IF root # None THEN arena
                ELSE append(new_node(arena, Leaf("Root", 0, 0)),
                            Len(arena) + 1, document)
    /\ borrowed' = TRUE
    /\ UNCHANGED <<text, root, pc, node, begin, end, parses>>

\* a parse without the test of finish() at its entry
ParseAgain ==
    /\ pc = "idle"
    /\ ~borrowed
    /\ parses < MaxParse
    /\ node' = document
    /\ pc' = "visit"
    /\ UNCHANGED <<text, arena, root, borrowed, begin, end, parses>>

\* Org::parse, its entry: nothing to do once finish() holds, else the driver
\* starts at the Document
Parse ==
    /\ pc = "idle"
    /\ ~borrowed
    /\ parses < MaxParse
    /\ IF finish
       THEN /\ parses' = parses + 1
            /\ UNCHANGED <<pc, node>>
       ELSE /\ node' = document
            /\ pc' = "visit"
            /\ UNCHANGED parses
    /\ UNCHANGED <<text, arena, root, borrowed, begin, end>>

\* a walker's step took the arena and its begin to r = <<arena, begin>>
Appended(r) ==
    /\ arena' = r[1]
    /\ begin' = r[2]

\* a Section step without the test `off != 0`
SectionStepAlways(ar, buf, b, e, n) ==
    LET off  == find_level(Slice(buf, b, e), usize_MAX)
        skip == skip_empty_lines(Slice(buf, b, b + off))
    IN IF b < e
       THEN <<AddChild(ar, n, Elem("Section", b, b + off,
                                   b + skip[1], b + skip[2])),
              b + off>>
       ELSE <<ar, b>>

\* the Section of a Document or Headline region: <<arena, begin>> after it
SectionStep(ar, buf, b, e, n) ==
    LET off  == find_level(Slice(buf, b, e), usize_MAX)
        skip == skip_empty_lines(Slice(buf, b, b + off))
    IN IF b < e /\ off # 0
       THEN <<AddChild(ar, n, Elem("Section", b, b + off,
                                   b + skip[1], b + skip[2])),
              b + off>>
       ELSE <<ar, b>>

\* parse's match arm for Document and Headline, up to its while loop
VisitHeadlines ==
    /\ pc = "visit"
    /\ arena[node].data.kind \in {"Document", "Headline"}
    /\ LET d == arena[node].data
           b == IF d.kind = "Document" THEN d.begin ELSE d.contents_begin
           e == IF d.kind = "Document" THEN d.end ELSE d.contents_end
       IN /\ Appended(SectionStep(arena, text, b, e, node))
          /\ end' = e
    /\ pc' = "headlines"
    /\ UNCHANGED <<text, root, borrowed, node, parses>>

\* one turn of the while loop of the Document and Headline arm
HeadlinesLoop ==
    /\ pc = "headlines"
    /\ IF begin < end
       THEN /\ Appended(HeadlinesIteration(arena, text, begin, end, node))
            /\ UNCHANGED pc
       ELSE /\ pc' = "next"
            /\ UNCHANGED <<arena, begin>>
    /\ UNCHANGED <<text, root, borrowed, node, end, parses>>

\* parse's match arm for Section, Block and ListItem: into
\* parse_elements_children
VisitElements ==
    /\ pc = "visit"
    /\ arena[node].data.kind \in {"Section", "Block", "ListItem"}
    /\ begin' = arena[node].data.contents_begin
    /\ end' = arena[node].data.contents_end
    /\ pc' = "elements"
    /\ UNCHANGED <<text, arena, root, borrowed, node, parses>>

\* one turn of the loop of parse_elements_children
ElementsLoop ==
    /\ pc = "elements"
    /\ IF begin < end
       THEN /\ Appended(ElementsIteration(arena, text, begin, end, node))
            /\ UNCHANGED pc
       ELSE /\ pc' = "next"
            /\ UNCHANGED <<arena, begin>>
    /\ UNCHANGED <<text, root, borrowed, node, end, parses>>

\* a match arm that sends a Section into parse_objects_children as well
VisitObjectsSection ==
    /\ pc = "visit"
    /\ arena[node].data.kind \in
          {"Section", "Paragraph", "Bold", "Underline", "Italic", "Strike"}
    /\ begin' = arena[node].data.contents_begin
    /\ end' = arena[node].data.contents_end
    /\ pc' = "objects"
    /\ UNCHANGED <<text, arena, root, borrowed, node, parses>>

\* parse's match arm for Paragraph, Bold, Underline, Italic and Strike: into
\* parse_objects_children
VisitObjects ==
    /\ pc = "visit"
    /\ arena[node].data.kind \in
          {"Paragraph", "Bold", "Underline", "Italic", "Strike"}
    /\ begin' = arena[node].data.contents_begin
    /\ end' = arena[node].data.contents_end
    /\ pc' = "objects"
    /\ UNCHANGED <<text, arena, root, borrowed, node, parses>>

\* one turn of the loop of parse_objects_children
ObjectsLoop ==
    /\ pc = "objects"
    /\ IF begin < end
       THEN /\ Appended(ObjectsIteration(arena, text, begin, end, node))
            /\ UNCHANGED pc
       ELSE /\ pc' = "next"
            /\ UNCHANGED <<arena, begin>>
    /\ UNCHANGED <<text, root, borrowed, node, end, parses>>

\* parse's match arm for List: into parse_list_items
VisitItems ==
    /\ pc = "visit"
    /\ arena[node].data.kind = "List"
    /\ begin' = arena[node].data.contents_begin
    /\ end' = arena[node].data.contents_end
    /\ pc' = "items"
    /\ UNCHANGED <<text, arena, root, borrowed, node, parses>>

\* one turn of the loop of parse_list_items
ItemsLoop ==
    /\ pc = "items"
    /\ IF begin < end
       THEN /\ Appended(ItemsIteration(arena, text, begin, end,
                                       arena[node].data.indent, node))
            /\ UNCHANGED pc
       ELSE /\ pc' = "next"
            /\ UNCHANGED <<arena, begin>>
    /\ UNCHANGED <<text, root, borrowed, node, end, parses>>

\* the kinds parse walks into
WalkedKinds == {"Document", "Headline", "Section", "Block", "ListItem",
                "Paragraph", "Bold", "Underline", "Italic", "Strike", "List"}

\* parse's match arm for every other kind
VisitOther ==
    /\ pc = "visit"
    /\ arena[node].data.kind \notin WalkedKinds
    /\ pc' = "next"
    /\ UNCHANGED <<text, arena, root, borrowed, node, begin, end, parses>>

\* Org::next_node, its first test: the first child if there is one
NextNode ==
    /\ pc = "next"
    /\ IF arena[node].first_child # None
       THEN /\ node' = arena[node].first_child
            /\ pc' = "visit"
       ELSE /\ pc' = "ascend"
            /\ UNCHANGED node
    /\ UNCHANGED <<text, arena, root, borrowed, begin, end, parses>>

\* one turn of the loop of Org::next_node: the next sibling, else up to the
\* parent, else parse's loop breaks and parse returns
Ascend ==
    /\ pc = "ascend"
    /\ IF arena[node].next_sibling # None
       THEN /\ node' = arena[node].next_sibling
            /\ pc' = "visit"
            /\ UNCHANGED parses
       ELSE IF arena[node].parent # None
       THEN /\ node' = arena[node].parent
            /\ UNCHANGED <<pc, parses>>
       ELSE /\ pc' = "idle"
            /\ parses' = parses + 1
            /\ UNCHANGED node
    /\ UNCHANGED <<text, arena, root, borrowed, begin, end>>

Next ==
    \/ Iter
    \/ Parse
    \/ VisitHeadlines
    \/ HeadlinesLoop
    \/ VisitElements
    \/ ElementsLoop
    \/ VisitObjects
    \/ ObjectsLoop
    \/ VisitItems
    \/ ItemsLoop
    \/ VisitOther
    \/ NextNode
    \/ Ascend

Spec == Init /\ [][Next]_vars

\* ------------------------------------------------------------- the claims

Ids == 1..Len(arena)

Data(n) == arena[n].data

\* a call of parse() has returned and none is running
Parsed == pc = "idle" /\ parses >= 1

InlineKinds == {"Text", "Bold", "Italic", "Underline", "Strike", "Verbatim",
                "Code", "Link", "Timestamp", "Target", "RadioTarget",
                "Cookie", "FnRef", "Snippet", "Macros", "InlineSrc",
                "InlineCall"}

ElementKinds == {"Paragraph", "List", "ListItem", "Block", "DynBlock",
                 "Drawer", "Clock", "Rule", "FnDef", "Keyword", "BabelCall"}

\* begin <= contents_begin <= contents_end <= end <= N for node n
SpansOrdered(n) ==
    /\ Data(n).begin <= Data(n).contents_begin
    /\ Data(n).contents_begin <= Data(n).contents_end
    /\ Data(n).contents_end <= Data(n).end
    /\ Data(n).end <= Len(text)

\* C1: after parse(), every node that has the inner pair satisfies
\* begin <= contents_begin <= contents_end <= end <= N, every Section included
C1_InnerSpansOrdered ==
    Parsed => \A n \in Ids : Data(n).kind \in InnerKinds => SpansOrdered(n)

\* C2: after parse(), two consecutive children a, b of a node satisfy
\* a.begin <= b.begin and a.end <= b.begin, Text children included
C2_SiblingsDisjoint ==
    Parsed =>
        \A a \in Ids :
            LET b == arena[a].next_sibling
            IN b # None =>
                  /\ Data(a).begin <= Data(b).begin
                  /\ Data(a).end <= Data(b).begin

\* C3: once a call of parse() has returned, a further call of parse()
\* creates no node and changes no span and no link
C3_ParseIdempotent ==
    [][(parses >= 1 /\ borrowed' = borrowed) => arena' = arena]_vars

\* C3 witness: a second call has returned on a tree that has nodes below the
\* Document
C3_Witness == pc = "idle" /\ parses = 2 /\ Len(arena) > 2

\* each turn of a walker's loop moves its begin forward
WalkerAdvances ==
    (pc' = pc /\ pc \in {"headlines", "elements", "objects", "items"})
        => begin' > begin

\* the region a walker is handed lies within the span of the node it fills
RegionWithin ==
    (pc = "visit" /\ pc' \in {"headlines", "elements", "objects", "items"})
        => /\ Data(node).begin <= begin'
           /\ end' <= Data(node).end

\* a turn of next_node's loop that does not leave it goes to the parent
AscentClimbs ==
    (pc = "ascend" /\ pc' = "ascend")
        => node' = arena[node].parent /\ node' # None

\* every node but the Document hangs under an earlier node, as one of its
\* children
TreeShaped ==
    \A n \in Ids :
        (n # document /\ Data(n).kind # "Root")
            => /\ arena[n].parent \in 1..(n - 1)
               /\ \E k \in 1..Len(Children(arena, arena[n].parent)) :
                     Children(arena, arena[n].parent)[k] = n

\* the place of node n in the walk of next_node when the walk comes to it:
\* after its previous sibling has been left, else after its parent has been
\* come to
RECURSIVE Enter(_), Leave(_)
Enter(n) ==
    IF arena[n].previous_sibling # None
    THEN Leave(arena[n].previous_sibling) + 1
    ELSE IF arena[n].parent # None THEN Enter(arena[n].parent) + 1
    ELSE 0

\* the place of node n in the walk of next_node when the walk leaves it:
\* after its last child has been left
Leave(n) ==
    IF arena[n].last_child # None THEN Leave(arena[n].last_child) + 1
    ELSE Enter(n) + 1

\* how far a running parse() has come: the place of its node in the walk,
\* then the part of the visit, then the walker's begin
Rank ==
    IF pc = "ascend" THEN <<Leave(node), 0, 0>>
    ELSE IF pc = "visit" THEN <<Enter(node), 0, 0>>
    ELSE IF pc = "next" THEN <<Enter(node), 2, 0>>
    ELSE <<Enter(node), 1, begin>>

\* r comes before s in the lexicographic order
Before(r, s) ==
    \/ r[1] < s[1]
    \/ r[1] = s[1] /\ r[2] < s[2]
    \/ r[1] = s[1] /\ r[2] = s[2] /\ r[3] < s[3]

\* every step of a running parse() that does not return takes it further
StepsForward == (pc # "idle" /\ pc' # "idle") => Before(Rank, Rank')

\* a running parse() always has a step to take: its node is in the arena and
\* its kind falls in one arm of the match
NeverStuck ==
    /\ pc \in {"idle", "visit", "headlines", "elements", "objects", "items",
               "next", "ascend"}
    /\ node \in Ids
    /\ pc = "visit" =>
          \/ Data(node).kind \in {"Document", "Headline"}
          \/ Data(node).kind \in {"Section", "Block", "ListItem"}
          \/ Data(node).kind \in
                {"Paragraph", "Bold", "Underline", "Italic", "Strike"}
          \/ Data(node).kind = "List"
          \/ Data(node).kind \notin WalkedKinds

\* C4: parse() returns on every input and leaves a tree: every walker turn
\* advances, every region lies within its node, the ascent of next_node
\* climbs to a node without parent, a running parse() always has a step to
\* take and every such step takes it further in a finite walk
C4_ParseTerminates ==
    /\ [][WalkerAdvances /\ RegionWithin /\ AscentClimbs /\ StepsForward]_vars
    /\ [](NeverStuck /\ (pc = "idle" => TreeShaped))

\* C4 witness: parse() has returned after the inline walker ran inside an
\* emphasis inside a paragraph inside a list item
C4_Witness ==
    /\ Parsed
    /\ \E n \in Ids :
          /\ Data(n).kind = "Text"
          /\ Data(arena[n].parent).kind \in {"Bold", "Italic"}
    /\ \E n \in Ids : Data(n).kind = "ListItem" /\ arena[n].first_child # None

Roots == {n \in Ids : Data(n).kind = "Root"}

\* C5: the arena holds exactly one Document and at most one Root, and the
\* Document is the only child of the Root when there is one
C5_OneDocumentOneRoot ==
    /\ {n \in Ids : Data(n).kind = "Document"} = {document}
    /\ Cardinality(Roots) <= 1
    /\ \A r \in Roots :
          /\ Children(arena, r) = <<document>>
          /\ arena[document].parent = r
    /\ Roots = {} => arena[document].parent = None

\* C5 witness: iter() was called on a parsed tree
C5_Witness == Parsed /\ borrowed /\ Roots # {} /\ Len(arena) > 3

\* C6: with no call running, finish() is true iff parse() has returned and
\* the input is not empty
C6_FinishIffParsedNonEmpty ==
    pc = "idle" => (finish <=> (parses >= 1 /\ Len(text) > 0))

\* C6 witness: finish() is true after parse() and iter()
C6_Witness == Parsed /\ borrowed /\ finish

\* the block types whose contents are literal
LiteralTypes == {<<"s", "r", "c">>, <<"e", "x", "a", "m", "p", "l", "e">>,
                 <<"e", "x", "p", "o", "r", "t">>,
                 <<"c", "o", "m", "m", "e", "n", "t">>}

\* C7: after parse(), a Block of a literal type has no child
C7_LiteralBlockNotParsed ==
    Parsed =>
        \A n \in Ids :
            (/\ Data(n).kind = "Block"
             /\ \E ty \in LiteralTypes : eq_ignore_ascii_case(Data(n).name, ty))
                => arena[n].first_child = None

\* a whitespace-only line that ends in a newline lies in text[b..e]
HasEmptyLine(b, e) ==
    \E p \in b..(e - 1) :
        /\ p = b \/ At(text, p - 1) = "\n"
        /\ LineEnd(text, p) < e
        /\ AllWhitespace(text, p, LineEnd(text, p))

\* the end of the last line of text[b..e] that is not whitespace-only,
\* its newline excluded; b without such a line
LastSolidLineEnd(b, e) ==
    LET solid == {k \in b..(e - 1) : At(text, k) \notin Whitespace}
    IN IF solid = {} THEN b ELSE LineEnd(text, Greatest(solid))

\* C8: after parse(), a Paragraph that a whitespace-only line ended has
\* contents_begin = begin and contents_end just past the last character of
\* its last non-empty line, the newline excluded; the two paragraphs of
\* "Para one.\n\nPara two.\n" have contents_end 9 and 20
C8_ParagraphContentsEnd ==
    Parsed =>
        /\ \A n \in Ids :
              (/\ Data(n).kind = "Paragraph"
               /\ HasEmptyLine(Data(n).begin, Data(n).end))
                  => /\ Data(n).contents_begin = Data(n).begin
                     /\ Data(n).contents_end
                           = LastSolidLineEnd(Data(n).begin, Data(n).end)
        /\ text = Paragraphs =>
              /\ Len(Children(arena, 2)) = 2
              /\ Data(Children(arena, 2)[1]).kind = "Paragraph"
              /\ Data(Children(arena, 2)[1]).contents_end = 9
              /\ Data(Children(arena, 2)[2]).kind = "Paragraph"
              /\ Data(Children(arena, 2)[2]).contents_end = 20

\* the region of a Document or Headline node: <<begin, end>>
Region(n) ==
    IF Data(n).kind = "Document" THEN <<Data(n).begin, Data(n).end>>
    ELSE <<Data(n).contents_begin, Data(n).contents_end>>

\* the offsets of text[b..e] at which a headline line starts
HeadlineLines(b, e) ==
    {p \in b..(e - 1) :
        /\ p = b \/ At(text, p - 1) = "\n"
        /\ \E stars \in 1..(e - p - 1) :
              /\ \A k \in p..(p + stars - 1) : At(text, k) = "*"
              /\ At(text, p + stars) = " "}

\* C9: after parse(), a Section is the first child of a Document or a
\* Headline; a Document or Headline has a Section child exactly when its
\* region is not empty and does not start with a headline line, that Section
\* spans from the region's start to the first headline line (the region's end
\* without one), and every other child is a Headline
C9_SectionPlacement ==
    Parsed =>
        /\ \A n \in Ids :
              Data(n).kind = "Section"
                  => /\ arena[n].parent # None
                     /\ Data(arena[n].parent).kind \in {"Document", "Headline"}
                     /\ arena[arena[n].parent].first_child = n
        /\ \A n \in Ids :
              Data(n).kind \in {"Document", "Headline"}
                  => LET b        == Region(n)[1]
                         e        == Region(n)[2]
                         kids     == Children(arena, n)
                         sections == {k \in 1..Len(kids) :
                                         Data(kids[k]).kind = "Section"}
                     IN /\ \A k \in 1..Len(kids) :
                              Data(kids[k]).kind \in {"Section", "Headline"}
                        /\ sections = IF b < e /\ b \notin HeadlineLines(b, e)
                                      THEN {1} ELSE {}
                        /\ \A k \in sections :
                              /\ Data(kids[k]).begin = b
                              /\ Data(kids[k]).end
                                    = IF HeadlineLines(b, e) = {} THEN e
                                      ELSE Least(HeadlineLines(b, e))

\* C9 witness: a parsed tree with a Section under a Headline that also has a
\* child Headline
C9_Witness ==
    /\ Parsed
    /\ \E n \in Ids :
          /\ Data(n).kind = "Section"
          /\ Data(arena[n].parent).kind = "Headline"
          /\ arena[n].next_sibling # None

\* C10: no inline node is a child of a Section, Block or ListItem, no element
\* is a child of an inline node, and the parent of a Headline is a Document
\* or a Headline
C10_LayersNotMixed ==
    \A n \in Ids :
        arena[n].parent # None =>
            LET up == Data(arena[n].parent).kind
            IN /\ Data(n).kind \in InlineKinds
                     => up \notin {"Section", "Block", "ListItem"}
               /\ Data(n).kind \in ElementKinds => up \notin InlineKinds
               /\ Data(n).kind = "Headline" => up \in {"Document", "Headline"}

\* C10 witness: a parsed tree with a Headline under a Headline, a Paragraph
\* under a ListItem and an inline node under an inline node
C10_Witness ==
    /\ Parsed
    /\ \E n \in Ids : Data(n).kind = "Headline"
                      /\ Data(arena[n].parent).kind = "Headline"
    /\ \E n \in Ids : Data(n).kind = "Paragraph"
                      /\ Data(arena[n].parent).kind = "ListItem"
    /\ \E n \in Ids : Data(n).kind \in InlineKinds
                      /\ Data(arena[n].parent).kind \in InlineKinds

\* the kinds whose contents region the inline walker walks
InlineParents == {"Paragraph", "Bold", "Italic", "Underline", "Strike"}

\* the bytes the children kids[k..] stand for: the value of a Text, the
\* buffer slice [begin, end) of any other child
RECURSIVE BytesOf(_, _)
BytesOf(kids, k) ==
    IF k > Len(kids) THEN <<>>
    ELSE (IF Data(kids[k]).kind = "Text" THEN Data(kids[k]).value
          ELSE Slice(text, Data(kids[k]).begin, Data(kids[k]).end))
         \o BytesOf(kids, k + 1)

\* C11: after parse(), the children of every node the inline walker walked
\* give back, in order, exactly the bytes of its contents region; no Text
\* value is empty, no two Text children are neighbours, and a region without
\* an object is one Text that holds the whole region
C11_InlineChildrenCoverRegion ==
    Parsed =>
        \A n \in Ids :
            Data(n).kind \in InlineParents =>
                LET kids == Children(arena, n)
                    cb   == Data(n).contents_begin
                    ce   == Data(n).contents_end
                IN /\ BytesOf(kids, 1) = Slice(text, cb, ce)
                   /\ \A k \in 1..Len(kids) :
                         Data(kids[k]).kind = "Text"
                             => /\ Data(kids[k]).value # <<>>
                                /\ k < Len(kids)
                                      => Data(kids[k + 1]).kind # "Text"
                   /\ (cb < ce /\ \A k \in 1..Len(kids) :
                                     Data(kids[k]).kind = "Text")
                         => /\ Len(kids) = 1
                            /\ Data(kids[1]).value = Slice(text, cb, ce)

\* C11 witness: a parsed paragraph whose children are a Text, an object and a
\* Text, the object itself walked into one Text
C11_Witness ==
    /\ Parsed
    /\ \E n \in Ids :
          /\ Data(n).kind = "Paragraph"
          /\ Len(Children(arena, n)) >= 3
          /\ Data(Children(arena, n)[1]).kind = "Text"
          /\ Data(Children(arena, n)[2]).kind \in {"Bold", "Italic"}
          /\ Len(Children(arena, Children(arena, n)[2])) = 1
          /\ Data(Children(arena, n)[3]).kind = "Text"

\* the kinds emphasis::parse gives
EmphasisKinds == {"Bold", "Italic", "Underline", "Strike", "Verbatim", "Code"}

\* C12: after parse(), every Bold, Italic, Underline, Strike, Verbatim and
\* Code begins at the first byte of the contents region of its parent or
\* right after a pre-delimiter
C12_EmphasisAfterPreDelimiter ==
    Parsed =>
        \A n \in Ids :
            Data(n).kind \in EmphasisKinds =>
                \/ Data(n).begin = Data(arena[n].parent).contents_begin
                \/ At(text, Data(n).begin - 1) \in PreDelimiters

\* the inline walker of node n stands at p: the start of the contents
\* region, the end of an object, or a byte of a Text child (the bytes the
\* fallback scan went over)
WalkerAt(n, p) ==
    \/ p = Data(n).contents_begin
    \/ \E k \in 1..Len(Children(arena, n)) :
           LET c == Data(Children(arena, n)[k])
           IN IF c.kind = "Text"
              THEN c.begin <= p /\ p < c.begin + Len(c.value)
              ELSE c.end = p

\* the rest of the region of n from p begins with {{{ and is a macro
MacroAt(n, p) ==
    /\ p + 3 <= Data(n).contents_end
    /\ Slice(text, p, p + 3) = <<"{", "{", "{">>
    /\ MacrosParse(Slice(text, p, Data(n).contents_end)) # <<>>

\* C13: after parse(), wherever the inline walker stood at a position where
\* the rest of the region begins with {{{ and is a macro, the node has a
\* Macros child that begins there
C13_MacroAtWalkerPosition ==
    Parsed =>
        \A n \in Ids :
            Data(n).kind \in InlineParents =>
                \A p \in Data(n).contents_begin..(Data(n).contents_end - 1) :
                    (WalkerAt(n, p) /\ MacroAt(n, p)) =>
                        \E k \in 1..Len(Children(arena, n)) :
                            /\ Data(Children(arena, n)[k]).kind = "Macros"
                            /\ Data(Children(arena, n)[k]).begin = p

\* the recognizers that match the tail, in the order of the ladder
TailMatches(tail) ==
    <<ClockParse(tail) # <<>>,
      StartsWith(tail, <<"-", "-", "-", "-", "-">>) /\ RuleParse(tail) # <<>>,
      StartsWith(tail, <<":">>) /\ DrawerParse(tail) # <<>>,
      StartsWith(tail, <<"#", "+">>) /\ BlockParse(tail) # <<>>,
      StartsWith(tail, <<"#", "+">>) /\ DynBlockParse(tail) # <<>>,
      StartsWith(tail, <<"#", "+">>) /\ KeywordParse(tail) # <<>>>>

\* the kinds of the ladder, in its order: the two tried on the text at
\* begin, then the six tried on the tail
LadderKinds ==
    <<"FnDef", "List", "Clock", "Rule", "Drawer", "Block", "DynBlock",
      "Keyword">>

\* which recognizers match t = text[begin..end], in the order of the ladder
Matches(t) ==
    <<FnDefParse(t) # <<>>, ListParse(t) # <<>>>>
        \o TailMatches(Slice(t, LineBegin(t), Len(t)))

\* the kind the ladder answers for the matches m: that of the first match
\* (BabelCall for a keyword CALL), "None" without a match
FirstKind(m, t) ==
    IF \A k \in 1..8 : ~m[k] THEN "None"
    ELSE LET k == Least({j \in 1..8 : m[j]})
         IN IF /\ k = 8
               /\ eq_ignore_ascii_case(
                      KeywordParse(Slice(t, LineBegin(t), Len(t)))[1],
                      <<"C", "A", "L", "L">>)
            THEN "BabelCall" ELSE LadderKinds[k]

\* the answer r of parse_element at begin b is the one of the ladder
LadderHolds(b, kind, r) ==
    IF kind = "None" THEN r = <<>>
    ELSE /\ r # <<>>
         /\ r[1].kind = kind
         /\ r[1].begin = b
         /\ r[2] = r[1].end - r[1].begin

\* C14: parse_element answers the node of the first recognizer of the
\* ladder that matches (footnote definition, list, then on the tail clock,
\* rule, drawer, block, dynamic block, keyword; BabelCall for the key CALL),
\* with begin at the dispatch position and length end - begin, and None
\* when no recognizer matches
C14_ElementLadder ==
    Parsed =>
        \A b \in 0..Len(text) :
            \A e \in b..Len(text) :
                LadderHolds(b, FirstKind(Matches(Slice(text, b, e)),
                                         Slice(text, b, e)),
                            parse_element(text, b, e))

\* a parsed buffer where the dynamic block and the keyword recognizers both
\* match at the start and the node there is a DynBlock, and where a keyword
\* whose key is CALL in mixed case, after a space, became a BabelCall
C14_Witness ==
    /\ Parsed
    /\ Matches(text)[7] /\ Matches(text)[8]
    /\ \E n \in Ids : Data(n).kind = "DynBlock" /\ Data(n).begin = 0
    /\ \E n \in Ids :
           /\ Data(n).kind = "BabelCall"
           /\ At(text, Data(n).begin) = " "
           /\ Slice(text, Data(n).begin + 3, Data(n).begin + 7)
                  = <<"C", "a", "L", "l">>
           /\ parse_element(text, Data(n).begin,
                            Data(arena[n].parent).contents_end)[2]
                  = Data(n).end - Data(n).begin

====
